---- MODULE Spec2Model ----
(***************************************************************************)
(* Key loading and live filtering of RegUI (src/regui.py, ModernRedisGUI). *)
(*                                                                         *)
(* Threads of the program:                                                 *)
(*   - the Tk main loop, which runs one handler at a time: button and key  *)
(*     handlers and the callbacks queued with root.after(0, ...);          *)
(*   - one load_thread per load_keys call (the scan drive loop);           *)
(*   - connect_thread, started by connect_to_redis.                        *)
(* A handler of the main loop is one action.  A worker thread takes one    *)
(* step per blocking call: issuing redis_client.scan, and its return.      *)
(*                                                                         *)
(* A key is a sequence of one-character strings, so that str.lower() and   *)
(* the substring test `in` are computed and not assumed.                   *)
(***************************************************************************)
EXTENDS Integers, Sequences, FiniteSets, TLC

\* ---------------------------------------------------------------- bounds
\* load_keys calls that start a load_thread
MaxScans == 2
\* scan responses one load_thread receives before the source must end the pass
MaxBatches == 2
\* connect_to_redis calls
MaxConnects == 2
\* per-key metadata lookups that raise during one populate_keys_tree
\* while a client is set
MaxLookupErrors == 1

\* ------------------------------------------------------ program constants
scan_batch_size == 100
StartCursor == 0

\* ------------------------------------------------------------ data source
ka == <<"a">>
kab == <<"a", "b">>
kb == <<"b">>
kabc == <<"a", "b", "c">>

\* what one SCAN reply can hold
Batches == { <<ka, kab, kb>>, <<kabc>> }
\* the cursors a SCAN reply can carry: 0 ends the pass
Cursors == {0, 5}
\* what the user can have typed in the search entry
SearchTexts == { <<>>, <<"A", "b">> }

None == 0
Threads == 1..MaxScans

\* ------------------------------------------------------- pure functions
\* str.lower() on one character
LowerChar(c) == CASE c = "A" -> "a" [] c = "B" -> "b" [] c = "C" -> "c" [] OTHER -> c

\* str.lower()
Lower(s) == [i \in 1..Len(s) |-> LowerChar(s[i])]

\* `sub in s` on strings
Contains(sub, s) ==
    \E i \in 0..(Len(s) - Len(sub)) : SubSeq(s, i + 1, i + Len(sub)) = sub

\* a list.extend that skips the keys already held
ExtendUnique(all_keys, keys) ==
    all_keys \o SelectSeq(keys, LAMBDA k : \A i \in 1..Len(all_keys) : all_keys[i] # k)

\* a list.extend at the front
ExtendFront(all_keys, keys) == keys \o all_keys

\* an assignment in place of list.extend
ExtendReplace(all_keys, keys) == keys

\* list.extend
Extend(all_keys, keys) == all_keys \o keys

\* the exit test inverted
ScanCompleteInverted(cursor) == cursor # 0

\* the loop's exit test, `if cursor == 0: break`
ScanComplete(cursor) == cursor = 0

RECURSIVE SeqSum(_)
SeqSum(s) == IF s = <<>> THEN 0 ELSE Head(s) + SeqSum(Tail(s))

RECURSIVE Flatten(_)
Flatten(ss) == IF ss = <<>> THEN <<>> ELSE Head(ss) \o Flatten(Tail(ss))

\* the items of seq that are not `item`, in order
Without(seq, item) == SelectSeq(seq, LAMBDA x : x # item)

\* a loop that stops at the first key whose lookup raises
KeepUntilError(seq, drop, i) ==
    LET stops == {k \in i..Len(seq) : k \in drop}
        first == IF stops = {} THEN Len(seq) + 1
                 ELSE CHOOSE k \in stops : \A m \in stops : k <= m
    IN  SubSeq(seq, i, first - 1)

\* the subsequence of seq at the indices not in `drop`
RECURSIVE Keep(_, _, _)
Keep(seq, drop, i) ==
    IF i > Len(seq) THEN <<>>
    ELSE (IF i \in drop THEN <<>> ELSE <<seq[i]>>) \o Keep(seq, drop, i + 1)

\* ------------------------------------------------------------------ state
VARIABLES
    redis_client,   \* self.redis_client: None, or the client made by the n-th connect
    conn_seq,       \* connect_to_redis calls so far
    connPc,         \* connect_thread: "none", "new" (about to make the client), "ping"
    btn_cmd,        \* connect_btn's command: "connect" or "disconnect"
    btn_enabled,    \* connect_btn's state is 'normal'
    scan_cursor,    \* self.scan_cursor
    status_text,    \* the text of the status bar, [kind, n]
    search_entry,   \* the text of the search entry
    keys_tree,      \* keys_tree.get_children(): the attached items, in order
    afterQ,         \* callbacks queued with root.after(0, ...), oldest first
    th,             \* the load_threads, by order of start
    nscans,         \* load_threads started so far
    accum           \* history: the items the last populate_keys_tree inserted

vars == << redis_client, conn_seq, connPc, btn_cmd, btn_enabled, scan_cursor,
           status_text, search_entry, keys_tree, afterQ, th, nscans, accum >>

St(kind, n) == [kind |-> kind, n |-> n]
Ev(type, t) == [type |-> type, t |-> t]

NoCall == [client |-> None, cursor |-> 0, match |-> "", count |-> 0]

\* a load_thread that has not been started
Unborn == [pc |-> "unborn", cursor |-> 0, all_keys |-> <<>>, call |-> NoCall,
           conn |-> None, log |-> <<>>, cancelled |-> FALSE]

\* a load_thread that has returned and whose callbacks have run: nothing
\* refers to its locals any more
Ended(pc) == [Unborn EXCEPT !.pc = pc]

\* load_thread at its first statement: all_keys = [], cursor = 0.
\* History: conn is the client set when load_keys started it, log the batches
\* it has received, cancelled whether disconnect_from_redis ran while it was
\* in its loop.
NewThread == [pc |-> "scan", cursor |-> StartCursor, all_keys |-> <<>>,
              call |-> NoCall, conn |-> redis_client, log |-> <<>>,
              cancelled |-> FALSE]

\* the load_threads inside `while True`
InLoop(t) == th[t].pc \in {"scan", "wait"}
Running == {t \in Threads : InLoop(t)}

Init ==
    /\ redis_client = None
    /\ conn_seq = 0
    /\ connPc = "none"
    /\ btn_cmd = "connect"
    /\ btn_enabled = TRUE
    /\ scan_cursor = 0
    /\ status_text = St("Ready", 0)
    /\ search_entry = <<>>
    /\ keys_tree = <<>>
    /\ afterQ = <<>>
    /\ th = [t \in Threads |-> Unborn]
    /\ nscans = 0
    /\ accum = <<>>

\* a load_keys without the test of self.redis_client
load_keys_unguarded ==
    /\ status_text' = St("Loading", 0)
    /\ scan_cursor' = 0
    /\ nscans' = nscans + 1
    /\ th' = [th EXCEPT ![nscans + 1] = NewThread]

\* ------------------------------------------------------------- load_keys
\* load_keys(pattern='*', use_scan=True): every caller uses the defaults.
\* Sets status_text, scan_cursor, th and nscans.
load_keys ==
    IF redis_client = None
    THEN /\ status_text' = St("PleaseConnect", 0)
         /\ UNCHANGED << scan_cursor, th, nscans >>
    ELSE /\ status_text' = St("Loading", 0)
         /\ scan_cursor' = 0
         /\ nscans' = nscans + 1
         /\ th' = [th EXCEPT ![nscans + 1] = NewThread]

\* the connect_to_redis calls whose on_connection_success or
\* on_connection_error has not run yet
PendingConnects ==
    (IF connPc = "none" THEN 0 ELSE 1)
    + Cardinality({i \in 1..Len(afterQ) : afterQ[i].type \in {"conn_ok", "conn_err"}})

\* MaxScans leaves room for one more load_thread, beside those that
\* on_connection_success will start for the pending connects
RoomForScan == nscans + PendingConnects < MaxScans

\* a load_keys call of the user's
UserLoad ==
    /\ redis_client # None => RoomForScan
    /\ load_keys

\* the Refresh button, command=self.load_keys
Refresh ==
    /\ UserLoad
    /\ UNCHANGED << redis_client, conn_seq, connPc, btn_cmd, btn_enabled,
                    search_entry, keys_tree, afterQ, accum >>

\* set_key with a key and a value typed in and redis set() succeeding; the
\* other outcomes (empty input, set() raising) change nothing modelled here
set_key ==
    /\ IF redis_client = None
       THEN /\ status_text' = St("PleaseConnect", 0)
            /\ UNCHANGED << scan_cursor, th, nscans >>
       ELSE UserLoad
    /\ UNCHANGED << redis_client, conn_seq, connPc, btn_cmd, btn_enabled,
                    search_entry, keys_tree, afterQ, accum >>

\* delete_key with an item selected, the dialog confirmed and delete()
\* succeeding; the other outcomes change nothing modelled here
delete_key ==
    /\ IF redis_client = None
       THEN /\ status_text' = St("PleaseConnect", 0)
            /\ UNCHANGED << scan_cursor, th, nscans >>
       ELSE /\ keys_tree # <<>>
            /\ UserLoad
    /\ UNCHANGED << redis_client, conn_seq, connPc, btn_cmd, btn_enabled,
                    search_entry, keys_tree, afterQ, accum >>

\* import_data with a file chosen and read without error; without a client
\* it only shows a message box
import_data ==
    /\ redis_client # None
    /\ UserLoad
    /\ UNCHANGED << redis_client, conn_seq, connPc, btn_cmd, btn_enabled,
                    search_entry, keys_tree, afterQ, accum >>

\* ------------------------------------------------------------ connection
\* connect_to_redis, from the button (when it says Connect and is enabled) or
\* from the connection dialogs of the menu; one connect_thread at a time
connect_to_redis ==
    /\ conn_seq < MaxConnects
    /\ RoomForScan
    /\ connPc = "none"
    /\ conn_seq' = conn_seq + 1
    /\ connPc' = "new"
    /\ status_text' = St("Connecting", 0)
    /\ btn_enabled' = FALSE
    /\ UNCHANGED << redis_client, btn_cmd, scan_cursor, search_entry, keys_tree,
                    afterQ, th, nscans, accum >>

\* connect_thread: self.redis_client = redis.Redis(...)
connect_thread_new ==
    /\ connPc = "new"
    /\ redis_client' = conn_seq
    /\ connPc' = "ping"
    /\ UNCHANGED << conn_seq, btn_cmd, btn_enabled, scan_cursor, status_text,
                    search_entry, keys_tree, afterQ, th, nscans, accum >>

\* connect_thread: ping() returns or raises
connect_thread_ping ==
    /\ connPc = "ping"
    /\ connPc' = "none"
    /\ \E ok \in BOOLEAN :
          afterQ' = Append(afterQ, Ev(IF ok THEN "conn_ok" ELSE "conn_err", 0))
    /\ UNCHANGED << redis_client, conn_seq, btn_cmd, btn_enabled, scan_cursor,
                    status_text, search_entry, keys_tree, th, nscans, accum >>

\* on_connection_success, run by the main loop
on_connection_success ==
    /\ afterQ # <<>> /\ Head(afterQ).type = "conn_ok"
    /\ afterQ' = Tail(afterQ)
    /\ btn_cmd' = "disconnect"
    /\ btn_enabled' = TRUE
    /\ load_keys
    /\ UNCHANGED << redis_client, conn_seq, connPc, search_entry, keys_tree, accum >>

\* on_connection_error, run by the main loop: its lambda reads `e` after the
\* except block has unbound it, unless it ran before the block was left; so
\* it either raises NameError inside Tk's callback wrapper or shows the error
on_connection_error ==
    /\ afterQ # <<>> /\ Head(afterQ).type = "conn_err"
    /\ afterQ' = Tail(afterQ)
    /\ \/ /\ status_text' = St("ConnFailed", 0)
          /\ btn_enabled' = TRUE
       \/ UNCHANGED << status_text, btn_enabled >>
    /\ UNCHANGED << redis_client, conn_seq, connPc, btn_cmd, scan_cursor,
                    search_entry, keys_tree, th, nscans, accum >>

\* disconnect_from_redis: the button, once on_connection_success has made it
\* the Disconnect button
disconnect_from_redis ==
    /\ btn_cmd = "disconnect"
    /\ btn_enabled
    /\ redis_client' = None
    /\ status_text' = St("Disconnected", 0)
    /\ btn_cmd' = "connect"
    /\ keys_tree' = <<>>
    /\ accum' = <<>>
    /\ th' = [t \in Threads |->
                 IF InLoop(t) THEN [th[t] EXCEPT !.cancelled = TRUE] ELSE th[t]]
    /\ UNCHANGED << conn_seq, connPc, btn_enabled, scan_cursor, search_entry,
                    afterQ, nscans >>

\* an except branch that goes back to the top of the loop
RaiseInLoopRetry(t) ==
    /\ th' = [th EXCEPT ![t].pc = "scan", ![t].call = NoCall]
    /\ UNCHANGED afterQ

\* ------------------------------------------------------------ load_thread
\* what the exception handler of load_thread does: queue the status callback
RaiseInLoop(t) ==
    /\ th' = [th EXCEPT ![t].pc = "failed", ![t].call = NoCall,
                         ![t].cancelled = FALSE]
    /\ afterQ' = Append(afterQ, Ev("error", t))

\* load_thread evaluates self.redis_client.scan(cursor=cursor, match=pattern,
\* count=self.scan_batch_size): with no client the attribute lookup raises,
\* otherwise the call goes out on the client that is set now
ScanCall(t) ==
    /\ th[t].pc = "scan"
    /\ IF redis_client = None
       THEN RaiseInLoop(t)
       ELSE /\ th' = [th EXCEPT ![t].pc = "wait",
                                ![t].call = [client |-> redis_client,
                                             cursor |-> th[t].cursor,
                                             match |-> "*",
                                             count |-> scan_batch_size]]
            /\ UNCHANGED afterQ
    /\ UNCHANGED << redis_client, conn_seq, connPc, btn_cmd, btn_enabled,
                    scan_cursor, status_text, search_entry, keys_tree, nscans, accum >>

\* the state of load_thread after a reply (cursor, keys): all_keys.extend(keys),
\* then the loop's exit test
AfterReply(r, cursor, keys) ==
    [r EXCEPT !.cursor = cursor,
              !.all_keys = Extend(r.all_keys, keys),
              !.call = NoCall,
              !.log = Append(r.log, keys),
              !.cancelled = IF ScanComplete(cursor) THEN FALSE ELSE r.cancelled,
              !.pc = IF ScanComplete(cursor) THEN "done" ELSE "scan"]

\* the callbacks load_thread queues after a reply: the progress text, and
\* after the loop populate_keys_tree(all_keys)
QueuedAfterReply(t, cursor) ==
    IF ScanComplete(cursor)
    THEN << Ev("progress", t), Ev("populate", t) >>
    ELSE << Ev("progress", t) >>

\* the scan call in flight returns a reply, or raises
ScanReturn(t) ==
    /\ th[t].pc = "wait"
    /\ \/ \E cursor \in Cursors, keys \in Batches :
             /\ cursor # 0 => Len(th[t].log) + 1 < MaxBatches
             /\ th' = [th EXCEPT ![t] = AfterReply(th[t], cursor, keys)]
             /\ afterQ' = afterQ \o QueuedAfterReply(t, cursor)
       \/ RaiseInLoop(t)
    /\ UNCHANGED << redis_client, conn_seq, connPc, btn_cmd, btn_enabled,
                    scan_cursor, status_text, search_entry, keys_tree, nscans, accum >>

\* ------------------------------------------- callbacks of the load_thread
\* a progress callback that shows len(keys), the size of the last reply
show_progress_last_reply ==
    /\ afterQ # <<>> /\ Head(afterQ).type = "progress"
    /\ afterQ' = Tail(afterQ)
    /\ LET log == th[Head(afterQ).t].log
       IN  status_text' = St("Progress", Len(log[Len(log)]))
    /\ UNCHANGED << redis_client, conn_seq, connPc, btn_cmd, btn_enabled,
                    scan_cursor, search_entry, keys_tree, th, nscans, accum >>

\* lambda: status_text.config(text=f"Loading keys... ({len(all_keys)} found)")
\* all_keys is read when the callback runs
show_progress ==
    /\ afterQ # <<>> /\ Head(afterQ).type = "progress"
    /\ afterQ' = Tail(afterQ)
    /\ status_text' = St("Progress", Len(th[Head(afterQ).t].all_keys))
    /\ UNCHANGED << redis_client, conn_seq, connPc, btn_cmd, btn_enabled,
                    scan_cursor, search_entry, keys_tree, th, nscans, accum >>

\* the items populate_keys_tree would insert if no lookup raised
ItemsOf(keys) == [i \in 1..Len(keys) |-> [iid |-> i, text |-> keys[i]]]

\* the keys whose type/ttl/size lookup can raise in one populate_keys_tree:
\* all of them when no client is set, any few otherwise
LookupErrors(keys) ==
    IF redis_client = None
    THEN { 1..Len(keys) }
    ELSE { d \in SUBSET (1..Len(keys)) : Cardinality(d) <= MaxLookupErrors }

\* a populate_keys_tree that does not delete the children first
PopulatedNoClear(keys, errors) == keys_tree \o Keep(ItemsOf(keys), errors, 1)

\* the tree after populate_keys_tree(keys) when the lookups of the keys at
\* `errors` raise: the children are deleted, then each key is inserted at the
\* end unless its lookup raised
Populated(keys, errors) == Keep(ItemsOf(keys), errors, 1)

\* lambda: self.populate_keys_tree(all_keys)
populate_keys_tree ==
    /\ afterQ # <<>> /\ Head(afterQ).type = "populate"
    /\ afterQ' = Tail(afterQ)
    /\ LET t == Head(afterQ).t
           keys == th[t].all_keys
       IN  /\ \E errors \in LookupErrors(keys) :
                 keys_tree' = Populated(keys, errors)
           /\ accum' = keys_tree'
           /\ status_text' = St("Loaded", Len(keys))
           /\ th' = [th EXCEPT ![t] = Ended("populated")]
    /\ UNCHANGED << redis_client, conn_seq, connPc, btn_cmd, btn_enabled,
                    scan_cursor, search_entry, nscans >>

\* lambda: status_text.config(text=f"Error loading keys: {e}"): `e` is unbound
\* when the except block is left, so the callback raises NameError (and Tk
\* only prints it) unless it ran before load_thread left the block
show_error ==
    /\ afterQ # <<>> /\ Head(afterQ).type = "error"
    /\ afterQ' = Tail(afterQ)
    /\ \/ status_text' = St("Error", 0)
       \/ UNCHANGED status_text
    /\ th' = [th EXCEPT ![Head(afterQ).t] = Ended("reported")]
    /\ UNCHANGED << redis_client, conn_seq, connPc, btn_cmd, btn_enabled,
                    scan_cursor, search_entry, keys_tree, nscans, accum >>

\* ------------------------------------------------------------ filter_keys
\* a reattach at index 0: item becomes the first child
ReattachFirst(tree, item) == <<item>> \o Without(tree, item)

\* keys_tree.reattach(item, '', 'end'): item becomes the last child
Reattach(tree, item) == Append(Without(tree, item), item)

\* keys_tree.detach(item): item is no child any more
Detach(tree, item) == Without(tree, item)

\* `search_term in key` of filter_keys, both lower-cased
Matches(search, text) == Contains(Lower(search), Lower(text))

\* the loop of filter_keys over the children as they were when it began
RECURSIVE FilterLoop(_, _, _, _)
FilterLoop(children, i, tree, search) ==
    IF i > Len(children) THEN tree
    ELSE FilterLoop(children, i + 1,
                    IF Matches(search, children[i].text)
                    THEN Reattach(tree, children[i])
                    ELSE Detach(tree, children[i]),
                    search)

\* a filter_keys that asks the server again instead of filtering the tree
filter_keys_reload(text) ==
    /\ search_entry' = text
    /\ UserLoad
    /\ UNCHANGED << redis_client, conn_seq, connPc, btn_cmd, btn_enabled,
                    keys_tree, afterQ, accum >>

\* a key is released in the search entry, whose text is now `text`
filter_keys(text) ==
    /\ search_entry' = text
    /\ keys_tree' = FilterLoop(keys_tree, 1, keys_tree, text)
    /\ UNCHANGED << redis_client, conn_seq, connPc, btn_cmd, btn_enabled,
                    scan_cursor, status_text, afterQ, th, nscans, accum >>

\* ---------------------------------------------------------- specification
MainLoop ==
    \/ on_connection_success
    \/ on_connection_error
    \/ show_progress
    \/ populate_keys_tree
    \/ show_error

Next ==
    \/ Refresh
    \/ set_key
    \/ delete_key
    \/ import_data
    \/ connect_to_redis
    \/ connect_thread_new
    \/ connect_thread_ping
    \/ disconnect_from_redis
    \/ \E text \in SearchTexts : filter_keys(text)
    \/ \E t \in Threads : ScanCall(t)
    \/ \E t \in Threads : ScanReturn(t)
    \/ MainLoop

Spec == Init /\ [][Next]_vars

\* The main loop runs every queued callback; a load_thread is scheduled, and a
\* scan call in flight returns or raises.
FairSpec ==
    /\ Spec
    /\ WF_vars(MainLoop)
    /\ \A t \in Threads : WF_vars(ScanCall(t) \/ ScanReturn(t))

\* ------------------------------------------------------------- the status
\* The session status the status bar shows: "Loading keys..." with or without
\* a count is Running, "Loaded n keys" Completed, "Error loading keys" Failed;
\* disconnect_from_redis is the only way to stop a scan, so its
\* "Disconnected from Redis server" stands for Cancelled; every other text is
\* Idle.
StatusOf(text) ==
    CASE text.kind \in {"Loading", "Progress"} -> "Running"
      [] text.kind = "Loaded" -> "Completed"
      [] text.kind = "Error" -> "Failed"
      [] text.kind = "Disconnected" -> "Cancelled"
      [] OTHER -> "Idle"

Status == StatusOf(status_text)
Terminal == {"Completed", "Cancelled", "Failed"}

\* the texts of the items of a tree, in order
Texts(tree) == [i \in 1..Len(tree) |-> tree[i].text]

\* sub is a subsequence of seq
RECURSIVE IsSubseq(_, _)
IsSubseq(sub, seq) ==
    IF sub = <<>> THEN TRUE
    ELSE IF seq = <<>> THEN FALSE
    ELSE IF Head(sub) = Head(seq) THEN IsSubseq(Tail(sub), Tail(seq))
    ELSE IsSubseq(sub, Tail(seq))

\* the number of keys in a list of batches
BatchTotal(log) == SeqSum([i \in 1..Len(log) |-> Len(log[i])])

\* this step is a load_keys call that started a load_thread
Started == nscans' = nscans + 1

\* ----------------------------------------------------------------- claims

\* C1: at most one scan drive loop is Running per connection: no two
\* load_threads started on the same client are inside their loops at once.
C1_AtMostOneRunning ==
    \A t1, t2 \in Running : th[t1].conn = th[t2].conn => t1 = t2

\* C2: a start (load_keys, from any of its callers) invoked while the status is
\* Running and a drive loop is running is rejected: it leaves the load_threads,
\* the accumulated items, the cursor and the status as they were.
C2_StartWhileRunningRejected ==
    [][ ( /\ Status = "Running"
          /\ Running # {}
          /\ Refresh \/ set_key \/ delete_key \/ import_data \/ on_connection_success )
        => /\ th' = th
           /\ nscans' = nscans
           /\ scan_cursor' = scan_cursor
           /\ status_text' = status_text
           /\ keys_tree' = keys_tree ]_vars

\* C3: when the scan call raises, the loop issues no further scan call, and
\* once the failure is reported the status is Failed and the keys of the
\* batches received before the failure are among the visible items.
C3_FailureKeepsPartialItems ==
    [][ /\ \A t \in Threads :
              th[t].pc \in {"failed", "reported"} => th'[t].pc \notin {"scan", "wait"}
        /\ show_error =>
              /\ StatusOf(status_text') = "Failed"
              /\ IsSubseq(th[Head(afterQ).t].all_keys, Texts(keys_tree')) ]_vars

\* C4: when a scan completes (populate_keys_tree runs for it), the number of
\* accumulated keys, which is the count the status reports, is the sum of the
\* sizes of the batches the scan received, repeated keys counted each time.
C4_CompletedCountIsSumOfBatches ==
    [][ populate_keys_tree =>
           LET t == Head(afterQ).t
           IN  /\ Len(th[t].all_keys) = BatchTotal(th[t].log)
               /\ status_text' = St("Loaded", BatchTotal(th[t].log)) ]_vars

\* C4's case: a scan that received [a, ab, b] twice completed with 6 keys, all
\* six shown.
C4_Witness ==
    /\ status_text = St("Loaded", 6)
    /\ Texts(keys_tree) = << ka, kab, kb, ka, kab, kb >>

\* C5: within one scan the accumulated sequence is at every moment the
\* concatenation, in order of receipt, of the batches received so far.
C5_AccumulatedIsConcatenation ==
    \A t \in Threads : th[t].all_keys = Flatten(th[t].log)

\* C5's case: the batches [a, ab, b] then [abc] gave [a, ab, b, abc], and the
\* loop is complete.
C5_Witness ==
    \E t \in Threads :
        /\ th[t].pc = "done"
        /\ th[t].log = << <<ka, kab, kb>>, <<kabc>> >>
        /\ th[t].all_keys = << ka, kab, kb, kabc >>

\* C6: after cancel (disconnect_from_redis) on a running scan, its drive loop
\* issues no scan call beyond the one in flight, and the status eventually
\* becomes Cancelled.
C6_NoScanCallAfterCancel ==
    /\ [][ \A t \in Threads :
              th[t].cancelled => ~(th[t].pc = "scan" /\ th'[t].pc = "wait") ]_vars
    /\ \A t \in Threads : th[t].cancelled ~> (Status = "Cancelled")

\* C7: once the status is Cancelled, the accumulated items (those of the
\* cancelled drive loops, and those shown) do not change before the next
\* start, even when a scan reply that was in flight is delivered.
C7_NoAppendAfterCancelled ==
    [][ (Status = "Cancelled" /\ ~Started)
        => /\ keys_tree' = keys_tree
           /\ \A t \in Threads :
                 th[t].cancelled => th'[t].all_keys = th[t].all_keys ]_vars

\* C8: the status enters Running only by a start, and enters a terminal
\* status only from Running (so never from another terminal status).
C8_StatusMachine ==
    [][ Status' # Status
        => /\ Status' = "Running" => Started
           /\ Status' \in Terminal => Status = "Running" ]_vars

\* C9, in every state: a drive loop is complete only after a reply with cursor
\* 0, and is back at the top of its loop only after a reply with another cursor.
C9_CompleteIffCursorZero ==
    \A t \in Threads :
        /\ th[t].pc = "done" => (th[t].log # <<>> /\ th[t].cursor = 0)
        /\ (th[t].pc = "scan" /\ th[t].log # <<>>) => th[t].cursor # 0

\* C9: the drive loop is complete exactly when a reply carried cursor 0 and
\* issues no scan call after it; a drive loop whose source ends the pass after
\* finitely many batches ends, Completed (populate_keys_tree has run) unless a
\* call raised; and a completed loop's result is always delivered.
C9_CompletesOnCursorZero ==
    /\ []C9_CompleteIffCursorZero
    /\ [][ \A t \in Threads :
              th[t].pc \in {"done", "populated"} => th'[t].pc \notin {"scan", "wait"} ]_vars
    /\ \A t \in Threads : InLoop(t) ~> (th[t].pc \in {"populated", "reported"})
    /\ \A t \in Threads : (th[t].pc = "done") ~> (th[t].pc = "populated")

\* C9's case: a scan whose second reply carried cursor 0 is Completed with the
\* keys of both replies.
C9_Witness ==
    /\ \E t \in Threads : th[t].pc = "populated"
    /\ status_text = St("Loaded", 4)

\* C10: an accumulated item is visible if and only if its lower-cased key
\* contains the lower-cased search text.
C10_VisibleIffMatches ==
    \A i \in 1..Len(accum) :
        (\E j \in 1..Len(keys_tree) : keys_tree[j] = accum[i])
            <=> Matches(search_entry, accum[i].text)

\* C11: the visible items are in the same relative order as the accumulated
\* items, whatever predicates were applied.
C11_VisibleInAccumulatedOrder == IsSubseq(keys_tree, accum)

\* C11's case: the predicate "Ab" over [a, ab, b, abc] shows [ab, abc].
C11_Witness ==
    /\ Texts(accum) = << ka, kab, kb, kabc >>
    /\ search_entry = << "A", "b" >>
    /\ Texts(keys_tree) = << kab, kabc >>

\* C12: when the filter is evaluated while a scan is running, every matching
\* key of the batches that scan has received so far is visible.
C12_FilterShowsLiveGrowth ==
    [][ \A text \in SearchTexts :
           filter_keys(text) =>
              \A t \in Running : \A i \in 1..Len(th[t].all_keys) :
                 Matches(text, th[t].all_keys[i]) =>
                    \E j \in 1..Len(keys_tree') : keys_tree'[j].text = th[t].all_keys[i] ]_vars

\* the progress callbacks of load_thread t still queued
QueuedProgress(t) == Cardinality({i \in 1..Len(afterQ) : afterQ[i] = Ev("progress", t)})

\* the progress callback at the head of the queue is the k-th of its thread
HeadSnapshotIndex == LET t == Head(afterQ).t IN Len(th[t].log) - QueuedProgress(t) + 1

\* the number of keys in the first k batches of a log
PrefixTotal(log, k) == BatchTotal(SubSeq(log, 1, k))

\* C13 as claimed: the k-th progress snapshot reports the sum of the sizes of
\* batches 1..k.
C13_SnapshotReportsTotalAsOfItsBatch ==
    [][ show_progress =>
           status_text'.n = PrefixTotal(th[Head(afterQ).t].log, HeadSnapshotIndex) ]_vars

\* C13 amended: a snapshot reports the running total at the moment it is
\* shown, the sum of the sizes of all the batches received by then, which is at
\* least the sum for batches 1..k; and a drive loop at the top of its loop can
\* always issue its next scan call, whatever is queued.
C13_SnapshotReportsCurrentTotal ==
    /\ [][ show_progress =>
              LET t == Head(afterQ).t
              IN  /\ status_text' = St("Progress", BatchTotal(th[t].log))
                  /\ status_text'.n >= PrefixTotal(th[t].log, HeadSnapshotIndex) ]_vars
    /\ [](\A t \in Threads : th[t].pc = "scan" => ENABLED ScanCall(t))

\* C13's case: a drive loop has issued its second scan call while the snapshot
\* of its first batch is still queued.
C13_Witness ==
    \E t \in Threads :
        /\ th[t].pc = "wait"
        /\ Len(th[t].log) = 1
        /\ afterQ # <<>> /\ Head(afterQ) = Ev("progress", t)

\* C14: while a scan is running, the length of its accumulated sequence never
\* decreases.
C14_MonotonicGrowth ==
    [][ \A t \in Threads :
           InLoop(t) => Len(th'[t].all_keys) >= Len(th[t].all_keys) ]_vars

\* C14's case: a running scan that has received two batches.
C14_Witness ==
    \E t \in Threads : th[t].pc = "wait" /\ Len(th[t].all_keys) = 3

\* C15: a start gives the new scan an empty sequence and the start cursor 0,
\* and when the scan completes the items shown are items that scan returned,
\* in its order, and nothing else.
C15_StartResetsAndCompletionReplaces ==
    /\ [][ Started =>
              /\ th'[nscans'].all_keys = <<>>
              /\ th'[nscans'].cursor = 0
              /\ scan_cursor' = 0 ]_vars
    /\ [][ populate_keys_tree =>
              /\ IsSubseq(Texts(keys_tree'), Flatten(th[Head(afterQ).t].log))
              /\ accum' = keys_tree' ]_vars

\* C15's case: two scans have completed, and the tree shows the one key of
\* the scan that completed last.
C15_Witness ==
    /\ \A t \in Threads : th[t].pc = "populated"
    /\ status_text = St("Loaded", 1)
    /\ Texts(keys_tree) = << kabc >>

\* C16: a lookup that raises in populate_keys_tree skips that key only: the
\* tree gets every other key in order, the status becomes 'Loaded n keys' for
\* all n keys of the scan and never an error; with a client set, at most
\* MaxLookupErrors lookups raise.
C16_LookupErrorSkipsOneItem ==
    [][ populate_keys_tree =>
           LET keys == th[Head(afterQ).t].all_keys
           IN  /\ StatusOf(status_text') = "Completed"
               /\ status_text'.n = Len(keys)
               /\ \E errors \in SUBSET (1..Len(keys)) :
                     /\ redis_client # None => Cardinality(errors) <= MaxLookupErrors
                     /\ keys_tree' = SelectSeq(ItemsOf(keys), LAMBDA it : it.iid \notin errors) ]_vars

\* C16's case: the lookup of the second of three keys raised, the first and
\* the third are shown and the status reports the three keys.
C16_Witness ==
    /\ redis_client # None
    /\ status_text = St("Loaded", 3)
    /\ Texts(keys_tree) = << ka, kb >>

\* C17: a load_thread that failed issues no further scan call; a thread leaves
\* "wait" for the top of the loop only with a reply, and a thread enters its
\* loop only by a load_keys call.
C17_NoRetryAfterFailure ==
    [][ \A t \in Threads :
           /\ th[t].pc \in {"failed", "reported"} => th'[t].pc \notin {"scan", "wait"}
           /\ (th[t].pc = "wait" /\ th'[t].pc = "scan") =>
                 Len(th'[t].log) = Len(th[t].log) + 1
           /\ (th[t].pc = "scan" /\ th'[t].pc # "scan") => th'[t].pc \in {"wait", "failed"}
           /\ (th[t].pc = "unborn" /\ th'[t].pc # "unborn") =>
                 Started /\ th'[t].pc = "scan" ]_vars

\* C17's case: a scan has failed and its error callback has run, with a
\* client still connected.
C17_Witness ==
    /\ redis_client # None
    /\ \E t \in Threads : th[t].pc = "reported" /\ th[t].call = NoCall

\* C18: all_keys of a load_thread changes only by the thread appending a reply
\* (or goes away with the thread once its last callback has run); filter_keys
\* and the progress callback leave it alone, the progress callback reports the
\* length of a whole number of batches, and populate_keys_tree gets the
\* concatenation of the batches.
C18_OnlyDriveLoopWrites ==
    [][ /\ \A t \in Threads :
              th'[t].all_keys # th[t].all_keys =>
                 \/ /\ th[t].pc = "wait"
                    /\ \E keys \in Batches : th'[t].all_keys = th[t].all_keys \o keys
                 \/ /\ th'[t].pc \in {"populated", "reported"}
                    /\ th'[t].all_keys = <<>>
        /\ ((\E text \in SearchTexts : filter_keys(text)) \/ show_progress) =>
              th' = th /\ accum' = accum
        /\ show_progress =>
              \E k \in 0..Len(th[Head(afterQ).t].log) :
                 status_text'.n = PrefixTotal(th[Head(afterQ).t].log, k)
        /\ populate_keys_tree =>
              IsSubseq(Texts(keys_tree'), Flatten(th[Head(afterQ).t].log)) ]_vars

\* C18's case: the filter is set and the progress of a running scan that
\* holds one batch has been shown.
C18_Witness ==
    /\ search_entry # <<>>
    /\ status_text = St("Progress", 3)
    /\ \E t \in Threads : InLoop(t) /\ th[t].all_keys = << ka, kab, kb >>

\* C19: applying a predicate to a tree it has just been applied to changes
\* nothing.
C19_FilterIdempotent ==
    \A text \in SearchTexts :
        LET once == FilterLoop(keys_tree, 1, keys_tree, text)
        IN  FilterLoop(once, 1, once, text) = once

\* C19's case: the predicate "Ab" has been applied to [a, ab, b].
C19_Witness ==
    /\ search_entry = << "A", "b" >>
    /\ Texts(accum) = << ka, kab, kb >>
    /\ Texts(keys_tree) = << kab >>

\* C20: a change of the predicate starts no scan, queues nothing, and leaves
\* the load_threads, scan_cursor, the status text and the client unchanged; the
\* visible items become a subsequence of what was visible.
C20_FilterTouchesOnlyVisible ==
    [][ ((\E text \in SearchTexts : filter_keys(text)) \/ search_entry' # search_entry) =>
           /\ UNCHANGED << th, nscans, afterQ, scan_cursor, status_text,
                           redis_client, accum >>
           /\ IsSubseq(keys_tree', keys_tree) ]_vars

\* C20's case: the predicate "Ab" was applied to the four keys of a completed
\* scan while the next scan has a call in flight.
C20_Witness ==
    /\ search_entry = << "A", "b" >>
    /\ Len(accum) = 4
    /\ Texts(keys_tree) = << kab, kabc >>
    /\ \E t \in Threads : th[t].pc = "wait"

\* C21: when scans overlap, the populate_keys_tree of a scan never runs after
\* the one of a scan started later, so the keys displayed in the end are those
\* of the scan started last.
C21_LatestScanWins ==
    [][ populate_keys_tree =>
           \A t2 \in Threads :
              t2 > Head(afterQ).t => th[t2].pc # "populated" ]_vars

\* a load_thread that has been started and has not delivered its result
InFlight(t) == th[t].pc \in {"scan", "wait", "done"}

\* the keys in the tree were inserted by the populate_keys_tree of load_thread t
ShownBy(t) ==
    /\ th[t].pc = "populated"
    /\ keys_tree # <<>>
    /\ \A t2 \in Threads \ {t} : th[t2].pc # "populated"

\* C22: with no client the tree shows no key, and a scan that was in flight
\* when disconnect_from_redis ran never fills the tree afterwards.
C22_StaleScanNeverPopulates ==
    /\ [](redis_client = None => keys_tree = <<>>)
    /\ \A t \in Threads :
          []((InFlight(t) /\ redis_client = None) => []~ShownBy(t))

\* C23: load_keys with no client starts no load_thread, queues nothing and
\* leaves the tree and scan_cursor unchanged; the status text becomes
\* 'Please connect to Redis first'.
C23_LoadKeysWithoutClient ==
    [][ (redis_client = None /\ (Refresh \/ on_connection_success)) =>
           /\ status_text' = St("PleaseConnect", 0)
           /\ UNCHANGED << th, nscans, scan_cursor, keys_tree, accum, redis_client >>
           /\ \A i \in 1..Len(afterQ') : afterQ'[i] \in {afterQ[j] : j \in 1..Len(afterQ)} ]_vars

\* C23's case: after a scan and a disconnect, load_keys was called with no
\* client while that scan still had a call in flight.
C23_Witness ==
    /\ redis_client = None
    /\ status_text = St("PleaseConnect", 0)
    /\ nscans = 1
    /\ th[1].pc = "wait"

====
